---- MODULE Spec2Model ----
(***************************************************************************)
(* A model of dynamodb/streams.go: the four DynamoDB Streams operations of *)
(* Table (DescribeStream, ListStreams, GetShardIterator[WithSeqNumber],    *)
(* GetRecords[WithLimit]).  Each operation builds one query, hands it to   *)
(* Server.queryServer, decodes the JSON answer with json.Unmarshal and     *)
(* returns the decoded fields.  The server is the environment: what it     *)
(* answers to a request is an input of the call.                           *)
(***************************************************************************)
EXTENDS Integers, Sequences, FiniteSets, TLC

VARIABLES
    op,         \* the operation called last ("none" before the first call)
    args,       \* the arguments of that call
    request,    \* the query handed to queryServer by that call
    server,     \* the server's data when it answered (streams, shards, page size)
    reply,      \* what queryServer returned: (jsonResponse, err)
    ret,        \* what the operation returned to its caller
    shardLen,   \* reader: number of records of the closed shard being read
    cursor,     \* reader: the shard iterator it holds
    delivered,  \* reader: the records received so far, in order of receipt
    phase,      \* reader: "unopened", "open" or "exhausted"
    topology,   \* shard tree: the stream's shards (server side)
    tree,       \* shard tree: the shards inserted so far
    completed,  \* shard tree: the shard ids marked completed
    reported    \* shard tree: the shard ids reported eligible so far

vars == <<op, args, request, server, reply, ret, shardLen, cursor, delivered,
          phase, topology, tree, completed, reported>>

apiVars == <<op, args, request, server, reply, ret>>
readerVars == <<shardLen, cursor, delivered, phase>>
treeVars == <<topology, tree, completed, reported>>

----------------------------------------------------------------------------
(* Bounds of the model *)

MaxStreams == 3     \* stream ids the server lists
MaxPageSize == 2    \* entries the server puts in one page
MaxShards == 3      \* shards of a stream a description is asked of
MaxTopology == 4    \* shards of the stream the shard tree follows
MaxRecords == 3     \* records of a shard
MaxLimit == 2       \* largest limit a caller passes

----------------------------------------------------------------------------
(* Values *)

ShardIteratorAtSequenceNumber == "AT_SEQUENCE_NUMBER"
ShardIteratorAfterSequenceNumber == "AFTER_SEQUENCE_NUMBER"
ShardIteratorTrimHorizon == "TRIM_HORIZON"
ShardIteratorLatest == "LATEST"

ShardIteratorType ==
    {ShardIteratorAtSequenceNumber, ShardIteratorAfterSequenceNumber,
     ShardIteratorTrimHorizon, ShardIteratorLatest}

StreamStatus == {"CREATING", "DELETING", "ACTIVE", "UPDATING"}

\* Go's nil error, the errors queryServer can return, json.Unmarshal's error.
NoError == "nil"
ServerErrors == {"ExpiredIterator", "Throttled", "Transient", "NotFound"}
UnmarshalError == "UnmarshalError"

StreamId(i) == "st" \o ToString(i)
ShardId(i) == "sh" \o ToString(i)
Iterator(p) == "it" \o ToString(p)
SequenceNumber(i) == ToString(i)

StreamIds == {StreamId(i) : i \in 1..MaxStreams}
ShardIds == {ShardId(i) : i \in 1..MaxShards}
Iterators == {Iterator(p) : p \in 0..MaxRecords}
SequenceNumbers == {SequenceNumber(i) : i \in 1..MaxRecords}

\* A Go slice: nil, or a (possibly empty) sequence of elements.
NilSlice == [nil |-> TRUE, elems |-> <<>>]
Slice(s) == [nil |-> FALSE, elems |-> s]

\* A JSON object is a function from the names of the fields it carries.
\* json.Unmarshal into a zero-valued struct leaves the zero value in every
\* field the object does not carry.
Field(json, name, zero) == IF name \in DOMAIN json THEN json[name] ELSE zero

RECURSIVE Flatten(_)
Flatten(pages) ==
    IF pages = <<>> THEN <<>> ELSE Head(pages) \o Flatten(Tail(pages))

Range(s) == {s[i] : i \in 1..Len(s)}

Min(a, b) == IF a < b THEN a ELSE b

\* The sequences over S without repetition, of length at most n.
RECURSIVE Listings(_, _)
Listings(S, n) ==
    IF n = 0 THEN {<<>>}
    ELSE LET shorter == Listings(S, n - 1)
         IN shorter \cup
            {Append(p[1], p[2]) :
                p \in {q \in shorter \X S :
                          Len(q[1]) = n - 1 /\ q[2] \notin Range(q[1])}}

----------------------------------------------------------------------------
(* The server (the environment of the four operations) *)

\* A stream's shards, oldest first: shard i is [parent |-> j, closed |-> c],
\* j the index of its parent (0: none).  A split gives a shard two children,
\* a merge gives one child to one of the two merged shards, so a shard has
\* at most two children and a shard with a child is closed.
Children(shards, j) == {i \in 1..Len(shards) : shards[i].parent = j}

Forests ==
    UNION {{f \in [1..n -> [parent : 0..n, closed : BOOLEAN]] :
              \A i \in 1..n :
                 /\ f[i].parent < i
                 /\ Cardinality(Children(f, i)) <= 2
                 /\ (Children(f, i) # {} => f[i].closed)} : n \in 0..MaxShards}

\* The JSON object the server sends for shard i: a root carries no
\* ParentShardId, an open shard no EndingSequenceNumber.
ShardJson(shards, i) ==
    LET start == [StartingSequenceNumber |-> SequenceNumber(100 * i + 1)]
        range == IF shards[i].closed
                 THEN [StartingSequenceNumber |-> SequenceNumber(100 * i + 1),
                       EndingSequenceNumber |-> SequenceNumber(100 * i + 100)]
                 ELSE start
    IN IF shards[i].parent = 0
       THEN [ShardId |-> ShardId(i), SequenceNumberRange |-> range]
       ELSE [ShardId |-> ShardId(i), SequenceNumberRange |-> range,
             ParentShardId |-> ShardId(shards[i].parent)]

ShardsJson(shards) == [i \in 1..Len(shards) |-> ShardJson(shards, i)]

\* The server's data at the moment it answers a request: the stream ids it
\* lists, the stream's shards and status, its page size, the iterator it
\* hands out, the shard a GetRecords request reads (its length, whether it
\* is closed, how many records the server is ready to send), and what goes
\* wrong with the request, if anything.
IdleServer ==
    [streams |-> <<>>, shards |-> <<>>, status |-> "ACTIVE", pageSize |-> 1,
     iterator |-> "", shardLen |-> 0, closed |-> TRUE, take |-> 0,
     fault |-> "none"]

\* The first page of a paginated list.  No request of this file carries an
\* exclusive start key, so the server always answers from the start.
FirstPage(list, pageSize) == SubSeq(list, 1, Min(pageSize, Len(list)))

\* All pages of a paginated list, as the server would hand them out to a
\* client that follows the last-evaluated cursor.
RECURSIVE Pages(_, _)
Pages(list, pageSize) ==
    IF Len(list) <= pageSize THEN <<list>>
    ELSE <<FirstPage(list, pageSize)>>
            \o Pages(SubSeq(list, pageSize + 1, Len(list)), pageSize)

ListStreamsJson(srv) ==
    LET page == FirstPage(srv.streams, srv.pageSize)
    IN IF Len(srv.streams) > srv.pageSize
       THEN [StreamIds |-> page, LastEvaluatedStreamId |-> page[Len(page)]]
       ELSE [StreamIds |-> page]

DescribeStreamJson(srv, q) ==
    LET all == ShardsJson(srv.shards)
        page == FirstPage(all, srv.pageSize)
        d == [StreamID |-> q.StreamId, StreamARN |-> "arn:" \o q.StreamId,
              TableName |-> "table", StreamStatus |-> srv.status,
              Shards |-> page]
    IN [StreamDescription |->
          IF Len(all) > srv.pageSize
          THEN [StreamID |-> d.StreamID, StreamARN |-> d.StreamARN,
                TableName |-> d.TableName, StreamStatus |-> d.StreamStatus,
                Shards |-> page,
                LastEvaluatedShardId |-> page[Len(page)].ShardId]
          ELSE d]

\* The server hands out the iterator it chooses; an answer may also carry none.
GetShardIteratorJson(srv) ==
    IF srv.iterator = "" THEN <<>> ELSE [ShardIterator |-> srv.iterator]

\* The shard holds the records with sequence numbers 1..shardLen; the
\* iterator Iterator(p) stands after the first p of them.
Position(it) == CHOOSE p \in 0..MaxRecords : Iterator(p) = it

RecordJson(i) ==
    [eventID |-> "ev" \o ToString(i), eventName |-> "MODIFY",
     dynamodb |-> [SequenceNumber |-> SequenceNumber(i)]]

\* A page of a GetRecords answer: at most `take` records, at most Limit when
\* the request sets one, and a successor iterator unless the shard is closed
\* and the page reaches its end.
GetRecordsJson(srv, q) ==
    LET p == Position(q.ShardIterator)
        cap == IF q.Limit > 0 THEN Min(q.Limit, srv.take) ELSE srv.take
        n == Min(cap, srv.shardLen - p)
        recs == [i \in 1..n |-> RecordJson(p + i)]
    IN IF srv.closed /\ p + n = srv.shardLen
       THEN [Records |-> recs]
       ELSE [Records |-> recs, NextShardIterator |-> Iterator(p + n)]

\* Whether the server knows the iterator of a GetRecords request.
KnownIterator(srv, q) ==
    \E p \in 0..srv.shardLen : Iterator(p) = q.ShardIterator

Faults == {"none", "garbage"} \cup ServerErrors

\* Server.queryServer as the operations see it: (jsonResponse, err).  A
\* response that is not the JSON the operation expects makes json.Unmarshal
\* fail.
queryServer(target, q, srv) ==
    IF srv.fault \in ServerErrors
    THEN [err |-> srv.fault, wellFormed |-> FALSE, json |-> <<>>]
    ELSE IF srv.fault = "garbage"
    THEN [err |-> NoError, wellFormed |-> FALSE, json |-> <<>>]
    ELSE IF target = "GetRecords" /\ ~KnownIterator(srv, q)
    THEN [err |-> "NotFound", wellFormed |-> FALSE, json |-> <<>>]
    ELSE [err |-> NoError, wellFormed |-> TRUE,
          json |-> CASE target = "DescribeStream" -> DescribeStreamJson(srv, q)
                     [] target = "ListStreams" -> ListStreamsJson(srv)
                     [] target = "GetShardIterator" -> GetShardIteratorJson(srv)
                     [] target = "GetRecords" -> GetRecordsJson(srv, q)]

----------------------------------------------------------------------------
(* The operations of streams.go.  Each takes its arguments and the server's  *)
(* behaviour (its data and fault) and gives the query it sent, what queryServer  *)
(* returned and what it returns to its caller.                               *)

SequenceNumberRangeT(json) ==
    [EndingSequenceNumber |-> Field(json, "EndingSequenceNumber", ""),
     StartingSequenceNumber |-> Field(json, "StartingSequenceNumber", "")]

ShardT(json) ==
    [ParentShardId |-> Field(json, "ParentShardId", ""),
     SequenceNumberRange |->
        SequenceNumberRangeT(Field(json, "SequenceNumberRange", <<>>)),
     ShardId |-> Field(json, "ShardId", "")]

\* json.Unmarshal of an array field into a slice field: the elements in the
\* array's order, each decoded, nil when the object carries no such field.
DecodeShards(json) ==
    IF "Shards" \in DOMAIN json
    THEN Slice([i \in 1..Len(json.Shards) |-> ShardT(json.Shards[i])])
    ELSE NilSlice

DecodeStreamIds(json) ==
    IF "StreamIds" \in DOMAIN json
    THEN Slice([i \in 1..Len(json.StreamIds) |-> json.StreamIds[i]])
    ELSE NilSlice

\* KeySchema, which no property here reads, is left out.
StreamDescriptionT(json) ==
    [LastEvaluatedShardId |-> Field(json, "LastEvaluatedShardId", ""),
     Shards |-> DecodeShards(json),
     StreamARN |-> Field(json, "StreamARN", ""),
     StreamID |-> Field(json, "StreamID", ""),
     StreamStatus |-> Field(json, "StreamStatus", ""),
     TableName |-> Field(json, "TableName", "")]

describeStreamResponse(json) ==
    [StreamDescription |->
        StreamDescriptionT(Field(json, "StreamDescription", <<>>))]

\* A nil *StreamDescriptionT.
NilDescription == [nil |-> TRUE, value |-> StreamDescriptionT(<<>>)]

\* DescribeStream as it would be if it followed LastEvaluatedShardId to the
\* last page.
DescribeStreamAllPages(streamId, srv) ==
    LET q == [target |-> "DescribeStream", StreamId |-> streamId]
        r == queryServer("DescribeStream", q, srv)
        d == describeStreamResponse(r.json).StreamDescription
    IN [request |-> q, reply |-> r,
        ret |-> IF r.err # NoError
                THEN [desc |-> NilDescription, err |-> r.err]
                ELSE IF ~r.wellFormed
                THEN [desc |-> NilDescription, err |-> UnmarshalError]
                ELSE [desc |->
                        [nil |-> FALSE,
                         value |->
                            [d EXCEPT !.LastEvaluatedShardId = "",
                                      !.Shards = DecodeShards(
                                          [Shards |-> ShardsJson(srv.shards)])]],
                      err |-> NoError]]

DescribeStream(streamId, srv) ==
    LET q == [target |-> "DescribeStream", StreamId |-> streamId]
        r == queryServer("DescribeStream", q, srv)
    IN [request |-> q, reply |-> r,
        ret |-> IF r.err # NoError
                THEN [desc |-> NilDescription, err |-> r.err]
                ELSE IF ~r.wellFormed
                THEN [desc |-> NilDescription, err |-> UnmarshalError]
                ELSE [desc |-> [nil |-> FALSE,
                                value |-> describeStreamResponse(r.json)
                                              .StreamDescription],
                      err |-> NoError]]

listStreamsResponse(json) ==
    [LastEvaluatedStreamId |-> Field(json, "LastEvaluatedStreamId", ""),
     StreamIds |-> DecodeStreamIds(json)]

ListStreams(tableName, srv) ==
    LET q == [target |-> "ListStreams", TableName |-> tableName]
        r == queryServer("ListStreams", q, srv)
    IN [request |-> q, reply |-> r,
        ret |-> IF r.err # NoError
                THEN [ids |-> NilSlice, err |-> r.err]
                ELSE IF ~r.wellFormed
                THEN [ids |-> NilSlice, err |-> UnmarshalError]
                ELSE [ids |-> listStreamsResponse(r.json).StreamIds,
                      err |-> NoError]]

getShardIteratorResponse(json) ==
    [ShardIterator |-> Field(json, "ShardIterator", "")]

\* The combinations of iterator type and sequence number that name no
\* position: a sequence-number type without one, another type with one.
InvalidPolicy(shardIteratorType, seqNumber) ==
    \/ /\ shardIteratorType \in {ShardIteratorAtSequenceNumber,
                                 ShardIteratorAfterSequenceNumber}
       /\ seqNumber = ""
    \/ /\ shardIteratorType \in {ShardIteratorTrimHorizon, ShardIteratorLatest}
       /\ seqNumber # ""

\* GetShardIteratorWithSeqNumber as it would be if it refused such a
\* combination itself.
GetShardIteratorValidating(streamId, shardId, shardIteratorType, seqNumber, srv) ==
    LET q == [target |-> "GetShardIterator", StreamId |-> streamId,
              ShardId |-> shardId, ShardIteratorType |-> shardIteratorType,
              SequenceNumber |-> seqNumber]
        r == queryServer("GetShardIterator", q, srv)
    IN [request |-> q, reply |-> r,
        ret |-> IF InvalidPolicy(shardIteratorType, seqNumber)
                THEN [it |-> "", err |-> "InvalidPolicy"]
                ELSE IF r.err # NoError
                THEN [it |-> "", err |-> r.err]
                ELSE IF ~r.wellFormed
                THEN [it |-> "", err |-> UnmarshalError]
                ELSE [it |-> getShardIteratorResponse(r.json).ShardIterator,
                      err |-> NoError]]

GetShardIteratorWithSeqNumber(streamId, shardId, shardIteratorType, seqNumber, srv) ==
    LET q == [target |-> "GetShardIterator", StreamId |-> streamId,
              ShardId |-> shardId, ShardIteratorType |-> shardIteratorType,
              SequenceNumber |-> seqNumber]
        r == queryServer("GetShardIterator", q, srv)
    IN [request |-> q, reply |-> r,
        ret |-> IF r.err # NoError
                THEN [it |-> "", err |-> r.err]
                ELSE IF ~r.wellFormed
                THEN [it |-> "", err |-> UnmarshalError]
                ELSE [it |-> getShardIteratorResponse(r.json).ShardIterator,
                      err |-> NoError]]

\* GetShardIterator as it would be with another default sequence number.
GetShardIteratorFromZero(streamId, shardId, shardIteratorType, srv) ==
    LET q == [target |-> "GetShardIterator", StreamId |-> streamId,
              ShardId |-> shardId, ShardIteratorType |-> shardIteratorType,
              SequenceNumber |-> "0"]
        r == queryServer("GetShardIterator", q, srv)
    IN [request |-> q, reply |-> r,
        ret |-> IF r.err # NoError
                THEN [it |-> "", err |-> r.err]
                ELSE IF ~r.wellFormed
                THEN [it |-> "", err |-> UnmarshalError]
                ELSE [it |-> getShardIteratorResponse(r.json).ShardIterator,
                      err |-> NoError]]

GetShardIterator(streamId, shardId, shardIteratorType, srv) ==
    GetShardIteratorWithSeqNumber(streamId, shardId, shardIteratorType, "",
                                  srv)

\* Keys, NewImage, OldImage, SizeBytes and StreamViewType, which the
\* operations hand on as decoded and no property here reads, are left out.
StreamRecordT(json) ==
    [SequenceNumber |-> Field(json, "SequenceNumber", "")]

\* The struct tags of RecordT are not of the form json:"name", so
\* encoding/json matches each field by its Go name, ignoring case.
\* AwsRegion, EventSource and EventVersion are left out.
RecordT(json) ==
    [DynamoDB |-> StreamRecordT(Field(json, "dynamodb", <<>>)),
     EventID |-> Field(json, "eventID", ""),
     EventName |-> Field(json, "eventName", "")]

DecodeRecords(json) ==
    IF "Records" \in DOMAIN json
    THEN Slice([i \in 1..Len(json.Records) |-> RecordT(json.Records[i])])
    ELSE NilSlice

getRecordsResponse(json) ==
    [NextShardIterator |-> Field(json, "NextShardIterator", ""),
     Records |-> DecodeRecords(json)]

\* GetRecordsWithLimit as it would be if it hid an expired iterator from its
\* caller, handing the iterator back as its own successor.
GetRecordsAbsorbingExpiry(shardIterator, limit, srv) ==
    LET q == [target |-> "GetRecords", ShardIterator |-> shardIterator,
              Limit |-> limit]
        r == queryServer("GetRecords", q, srv)
    IN [request |-> q, reply |-> r,
        ret |-> IF r.err = "ExpiredIterator"
                THEN [next |-> shardIterator, records |-> NilSlice,
                      err |-> NoError]
                ELSE IF r.err # NoError
                THEN [next |-> "", records |-> NilSlice, err |-> r.err]
                ELSE IF ~r.wellFormed
                THEN [next |-> "", records |-> NilSlice,
                      err |-> UnmarshalError]
                ELSE [next |-> getRecordsResponse(r.json).NextShardIterator,
                      records |-> getRecordsResponse(r.json).Records,
                      err |-> NoError]]

\* GetRecordsWithLimit as it would be if it took an empty page for the end
\* of the shard.
GetRecordsEmptyPageEnds(shardIterator, limit, srv) ==
    LET q == [target |-> "GetRecords", ShardIterator |-> shardIterator,
              Limit |-> limit]
        r == queryServer("GetRecords", q, srv)
        d == getRecordsResponse(r.json)
    IN [request |-> q, reply |-> r,
        ret |-> IF r.err # NoError
                THEN [next |-> "", records |-> NilSlice, err |-> r.err]
                ELSE IF ~r.wellFormed
                THEN [next |-> "", records |-> NilSlice,
                      err |-> UnmarshalError]
                ELSE [next |-> IF d.Records.elems = <<>> THEN ""
                               ELSE d.NextShardIterator,
                      records |-> d.Records,
                      err |-> NoError]]

\* GetRecordsWithLimit as it would be if it returned the page newest first.
GetRecordsNewestFirst(shardIterator, limit, srv) ==
    LET q == [target |-> "GetRecords", ShardIterator |-> shardIterator,
              Limit |-> limit]
        r == queryServer("GetRecords", q, srv)
        d == getRecordsResponse(r.json)
        n == Len(d.Records.elems)
    IN [request |-> q, reply |-> r,
        ret |-> IF r.err # NoError
                THEN [next |-> "", records |-> NilSlice, err |-> r.err]
                ELSE IF ~r.wellFormed
                THEN [next |-> "", records |-> NilSlice,
                      err |-> UnmarshalError]
                ELSE [next |-> d.NextShardIterator,
                      records |->
                         [d.Records EXCEPT
                            !.elems = [i \in 1..n |-> d.Records.elems[n + 1 - i]]],
                      err |-> NoError]]

\* GetRecordsWithLimit as it would be without the check of json.Unmarshal's
\* error.
GetRecordsIgnoringDecodeError(shardIterator, limit, srv) ==
    LET q == [target |-> "GetRecords", ShardIterator |-> shardIterator,
              Limit |-> limit]
        r == queryServer("GetRecords", q, srv)
    IN [request |-> q, reply |-> r,
        ret |-> IF r.err # NoError
                THEN [next |-> "", records |-> NilSlice, err |-> r.err]
                ELSE [next |-> getRecordsResponse(r.json).NextShardIterator,
                      records |-> getRecordsResponse(r.json).Records,
                      err |-> NoError]]

GetRecordsWithLimit(shardIterator, limit, srv) ==
    LET q == [target |-> "GetRecords", ShardIterator |-> shardIterator,
              Limit |-> limit]
        r == queryServer("GetRecords", q, srv)
    IN [request |-> q, reply |-> r,
        ret |-> IF r.err # NoError
                THEN [next |-> "", records |-> NilSlice, err |-> r.err]
                ELSE IF ~r.wellFormed
                THEN [next |-> "", records |-> NilSlice,
                      err |-> UnmarshalError]
                ELSE [next |-> getRecordsResponse(r.json).NextShardIterator,
                      records |-> getRecordsResponse(r.json).Records,
                      err |-> NoError]]

\* GetRecords as it would be if it handed back the iterator it was given in
\* place of the answer's.
GetRecordsKeepingIterator(shardIterator, srv) ==
    LET q == [target |-> "GetRecords", ShardIterator |-> shardIterator,
              Limit |-> 0]
        r == queryServer("GetRecords", q, srv)
    IN [request |-> q, reply |-> r,
        ret |-> IF r.err # NoError
                THEN [next |-> "", records |-> NilSlice, err |-> r.err]
                ELSE IF ~r.wellFormed
                THEN [next |-> "", records |-> NilSlice,
                      err |-> UnmarshalError]
                ELSE [next |-> shardIterator,
                      records |-> getRecordsResponse(r.json).Records,
                      err |-> NoError]]

GetRecords(shardIterator, srv) ==
    GetRecordsWithLimit(shardIterator, 0, srv)

----------------------------------------------------------------------------
(* Calls of the operations by an arbitrary caller *)

\* The caller is between two calls.
Idle == op = "none"

Called(name, a, srv, call) ==
    /\ op' = name
    /\ args' = a
    /\ server' = srv
    /\ request' = call.request
    /\ reply' = call.reply
    /\ ret' = call.ret

CallDescribeStream ==
    /\ Idle
    /\ \E streamId \in StreamIds, shards \in Forests, status \in StreamStatus,
           pageSize \in 1..MaxPageSize, fault \in Faults :
            LET srv == [IdleServer EXCEPT !.shards = shards, !.status = status,
                                          !.pageSize = pageSize,
                                          !.fault = fault]
            IN /\ Called("DescribeStream", [streamId |-> streamId], srv,
                         DescribeStream(streamId, srv))
               /\ UNCHANGED <<readerVars, treeVars>>

CallListStreams ==
    /\ Idle
    /\ \E streams \in Listings(StreamIds, MaxStreams),
           pageSize \in 1..MaxPageSize, fault \in Faults :
            LET srv == [IdleServer EXCEPT !.streams = streams,
                                          !.pageSize = pageSize,
                                          !.fault = fault]
            IN /\ Called("ListStreams", [tableName |-> "table"], srv,
                         ListStreams("table", srv))
               /\ UNCHANGED <<readerVars, treeVars>>

SeqNumberArgs == {""} \cup SequenceNumbers

CallGetShardIteratorWithSeqNumber ==
    /\ Idle
    /\ \E streamId \in StreamIds, shardId \in ShardIds,
           shardIteratorType \in ShardIteratorType, seqNumber \in SeqNumberArgs,
           iterator \in Iterators \cup {""}, fault \in Faults :
            LET srv == [IdleServer EXCEPT !.iterator = iterator,
                                          !.fault = fault]
            IN /\ Called("GetShardIteratorWithSeqNumber",
                         [streamId |-> streamId, shardId |-> shardId,
                          shardIteratorType |-> shardIteratorType,
                          seqNumber |-> seqNumber], srv,
                         GetShardIteratorWithSeqNumber(streamId, shardId,
                             shardIteratorType, seqNumber, srv))
               /\ UNCHANGED <<readerVars, treeVars>>

CallGetShardIterator ==
    /\ Idle
    /\ \E streamId \in StreamIds, shardId \in ShardIds,
           shardIteratorType \in ShardIteratorType,
           iterator \in Iterators \cup {""}, fault \in Faults :
            LET srv == [IdleServer EXCEPT !.iterator = iterator,
                                          !.fault = fault]
            IN /\ Called("GetShardIterator",
                         [streamId |-> streamId, shardId |-> shardId,
                          shardIteratorType |-> shardIteratorType], srv,
                         GetShardIterator(streamId, shardId, shardIteratorType,
                                          srv))
               /\ UNCHANGED <<readerVars, treeVars>>

\* The shard a GetRecords request reads, as the server has it.
Shards ==
    {[IdleServer EXCEPT !.shardLen = n, !.closed = c, !.take = k,
                        !.fault = fault] :
        n \in 0..MaxRecords, c \in BOOLEAN, k \in 0..MaxRecords,
        fault \in Faults}

CallGetRecordsWithLimit ==
    /\ Idle
    /\ \E shardIterator \in Iterators \cup {""}, limit \in 0..MaxLimit,
           srv \in Shards :
            /\ Called("GetRecordsWithLimit",
                      [shardIterator |-> shardIterator, limit |-> limit], srv,
                      GetRecordsWithLimit(shardIterator, limit, srv))
            /\ UNCHANGED <<readerVars, treeVars>>

CallGetRecords ==
    /\ Idle
    /\ \E shardIterator \in Iterators \cup {""}, srv \in Shards :
            /\ Called("GetRecords", [shardIterator |-> shardIterator], srv,
                      GetRecords(shardIterator, srv))
            /\ UNCHANGED <<readerVars, treeVars>>

NoCall ==
    /\ op = "none"
    /\ args = <<>>
    /\ request = <<>>
    /\ server = IdleServer
    /\ reply = [err |-> NoError, wellFormed |-> FALSE, json |-> <<>>]
    /\ ret = <<>>

IdleReader ==
    /\ shardLen = 0
    /\ cursor = ""
    /\ delivered = <<>>
    /\ phase = "unopened"

IdleTree ==
    /\ topology = <<[parent |-> 0, closed |-> FALSE]>>
    /\ tree = {}
    /\ completed = {}
    /\ reported = {}

\* The caller has taken the result of its call and is ready for the next.
Return ==
    /\ ~Idle
    /\ op' = "none"
    /\ args' = <<>>
    /\ request' = <<>>
    /\ server' = IdleServer
    /\ reply' = [err |-> NoError, wellFormed |-> FALSE, json |-> <<>>]
    /\ ret' = <<>>
    /\ UNCHANGED <<readerVars, treeVars>>

Init == NoCall /\ IdleReader /\ IdleTree

Next ==
    \/ CallGetRecords
    \/ CallGetRecordsWithLimit
    \/ CallGetShardIterator
    \/ CallGetShardIteratorWithSeqNumber
    \/ CallListStreams
    \/ CallDescribeStream
    \/ Return

Spec == Init /\ [][Next]_vars

----------------------------------------------------------------------------
(* A reader of one closed shard: it opens an iterator at the trim horizon   *)
(* and fetches page after page, each time with the iterator the fetch       *)
(* before returned; a failed fetch is tried again with the same iterator.   *)

ReaderOpen ==
    /\ phase = "unopened"
    /\ \E p \in 0..shardLen, fault \in Faults :
        LET srv == [IdleServer EXCEPT !.iterator = Iterator(p),
                                      !.shardLen = shardLen,
                                      !.fault = fault]
            call == GetShardIterator(StreamId(1), ShardId(1),
                                     ShardIteratorTrimHorizon, srv)
        IN /\ Called("GetShardIterator",
                     [streamId |-> StreamId(1), shardId |-> ShardId(1),
                      shardIteratorType |-> ShardIteratorTrimHorizon],
                     srv, call)
           /\ IF call.ret.err = NoError
              THEN cursor' = call.ret.it /\ phase' = "open"
              ELSE UNCHANGED <<cursor, phase>>
           /\ UNCHANGED <<shardLen, delivered, treeVars>>

ReaderFetch ==
    /\ phase = "open"
    /\ \E take \in 0..MaxRecords, fault \in Faults :
        LET srv == [IdleServer EXCEPT !.shardLen = shardLen, !.take = take,
                                      !.fault = fault]
            call == GetRecords(cursor, srv)
        IN /\ Called("GetRecords", [shardIterator |-> cursor], srv, call)
           /\ IF call.ret.err = NoError
              THEN /\ delivered' = delivered \o call.ret.records.elems
                   /\ cursor' = call.ret.next
                   /\ phase' = IF call.ret.next = "" THEN "exhausted"
                               ELSE "open"
              ELSE UNCHANGED <<delivered, cursor, phase>>
           /\ UNCHANGED <<shardLen, treeVars>>

ReaderInit ==
    /\ NoCall
    /\ IdleTree
    /\ shardLen \in 0..MaxRecords
    /\ cursor = ""
    /\ delivered = <<>>
    /\ phase = "unopened"

ReaderNext == ReaderOpen \/ ReaderFetch

\* The server does not fail or send empty pages for ever: an open that
\* yields an iterator and a fetch that moves the iterator are not put off
\* for ever.
ReaderSpec ==
    /\ ReaderInit
    /\ [][ReaderNext]_vars
    /\ WF_vars(ReaderOpen /\ phase' = "open")
    /\ WF_vars(ReaderFetch /\ cursor' # cursor)

----------------------------------------------------------------------------
(* The shard tree: the shards of a stream by lineage, the shards marked     *)
(* completed, and the shards a reader may start on.                         *)

\* The stream splits an open shard in two.
SplitShard ==
    \E i \in 1..Len(topology) :
        /\ ~topology[i].closed
        /\ Len(topology) + 2 <= MaxTopology
        /\ topology' = [topology EXCEPT ![i].closed = TRUE]
                          \o <<[parent |-> i, closed |-> FALSE],
                               [parent |-> i, closed |-> FALSE]>>
        /\ UNCHANGED <<apiVars, readerVars, tree, completed, reported>>

\* The stream merges two open shards; ShardT names one parent.
MergeShards ==
    \E i, j \in 1..Len(topology) :
        /\ i # j
        /\ ~topology[i].closed
        /\ ~topology[j].closed
        /\ Len(topology) + 1 <= MaxTopology
        /\ topology' = [topology EXCEPT ![i].closed = TRUE,
                                        ![j].closed = TRUE]
                          \o <<[parent |-> i, closed |-> FALSE]>>
        /\ UNCHANGED <<apiVars, readerVars, tree, completed, reported>>

TopologyShards == {ShardT(ShardJson(topology, i)) : i \in 1..Len(topology)}

\* insert(shards): some of the stream's shards, as a description gives them.
Insert ==
    \E shards \in SUBSET TopologyShards :
        /\ shards # {}
        /\ tree' = tree \cup shards
        /\ UNCHANGED <<apiVars, readerVars, topology, completed, reported>>

\* markCompleted(shardId)
MarkCompleted ==
    \E s \in tree :
        /\ s.ShardId \notin completed
        /\ completed' = completed \cup {s.ShardId}
        /\ UNCHANGED <<apiVars, readerVars, topology, tree, reported>>

\* eligibleShards as it would be if it looked at no parent.
eligibleShardsIgnoringParent(shards, done) ==
    {s.ShardId : s \in {t \in shards : t.ShardId \notin done}}

\* eligibleShards(completed), over the shards inserted: the shards not yet
\* completed that have no parent or a completed one.
eligibleShards(shards, done) ==
    {s.ShardId : s \in {t \in shards :
                           /\ t.ShardId \notin done
                           /\ \/ t.ParentShardId = ""
                              \/ t.ParentShardId \in done}}

\* The tree reports the eligible shards to its caller.
ReportEligible ==
    /\ reported' = reported \cup eligibleShards(tree, completed)
    /\ reported' # reported
    /\ UNCHANGED <<apiVars, readerVars, topology, tree, completed>>

TreeInit == NoCall /\ IdleReader /\ IdleTree

TreeNext ==
    \/ SplitShard
    \/ MergeShards
    \/ Insert
    \/ MarkCompleted
    \/ ReportEligible

TreeSpec == TreeInit /\ [][TreeNext]_vars

----------------------------------------------------------------------------
(* Properties of the four operations *)

\* The server answered the request with a response json.Unmarshal accepts.
Answered == reply.err = NoError /\ reply.wellFormed

IsOpen == op \in {"GetShardIterator", "GetShardIteratorWithSeqNumber"}
IsFetch == op \in {"GetRecords", "GetRecordsWithLimit"}

\* The pages the server holds for the list the last call asked for.
StreamPages == Pages(server.streams, server.pageSize)
ShardPages == Pages(ShardsJson(server.shards), server.pageSize)

\* C1 as claimed: whenever the server's answer to ListStreams carries a
\* LastEvaluatedStreamId and further pages follow, the call returns the
\* stream ids of all pages, concatenated in page order.
C1_ListStreamsFollowsPagination ==
    (/\ op = "ListStreams"
     /\ Answered
     /\ Field(reply.json, "LastEvaluatedStreamId", "") # "")
        => /\ ret.err = NoError
           /\ ret.ids.elems = Flatten(StreamPages)

\* Whether a call of GetShardIterator(WithSeqNumber) passed a combination of
\* iterator type and sequence number that names no position.
InvalidCombination ==
    /\ IsOpen
    /\ InvalidPolicy(args.shardIteratorType,
                     IF op = "GetShardIterator" THEN "" ELSE args.seqNumber)

\* C2 as claimed: a call with a sequence-number type and no sequence number,
\* or with TRIM_HORIZON or LATEST and a sequence number, fails with
\* InvalidPolicy and returns no iterator.  Any error is taken for the
\* InvalidPolicy failure here, so that only a call that succeeds refutes it.
C2_OpenRejectsInvalidPolicy ==
    InvalidCombination => ret.err # NoError /\ ret.it = ""

\* C2 amended: the open operation does not check the combination; it sends
\* it to the server as given and returns the server's iterator with a nil
\* error when the server answers, and no iterator with the server's (or the
\* decoder's) error otherwise.
C2_OpenForwardsInvalidPolicy ==
    InvalidCombination
        => /\ request.ShardIteratorType = args.shardIteratorType
           /\ request.SequenceNumber =
                 (IF op = "GetShardIterator" THEN "" ELSE args.seqNumber)
           /\ (Answered
                 => ret = [it |-> Field(reply.json, "ShardIterator", ""),
                           err |-> NoError])
           /\ (reply.err # NoError => ret = [it |-> "", err |-> reply.err])
           /\ (reply.err = NoError /\ ~reply.wellFormed
                 => ret = [it |-> "", err |-> UnmarshalError])

C2_Witness ==
    /\ InvalidCombination
    /\ op = "GetShardIteratorWithSeqNumber"
    /\ args.shardIteratorType = ShardIteratorTrimHorizon
    /\ args.seqNumber # ""
    /\ ret.err = NoError
    /\ ret.it # ""

AbsorbedErrors == {"Throttled", "Transient", "ExpiredIterator"}

\* C3 as claimed: a throttling, transient or expired-iterator failure of the
\* server request is never returned to the caller as an error.
C3_FailuresAbsorbed ==
    ~Idle => ret.err \notin AbsorbedErrors

\* C3 amended: the operations absorb nothing; whatever error queryServer
\* returns, a throttling, transient or expired-iterator failure included,
\* is returned to the caller as it is, with no result, and GetRecords hands
\* back no iterator in its place.
C3_FailuresPropagate ==
    (~Idle /\ reply.err # NoError)
        => /\ ret.err = reply.err
           /\ (IsFetch => ret.next = "" /\ ret.records = NilSlice)
           /\ (IsOpen => ret.it = "")
           /\ (op = "ListStreams" => ret.ids = NilSlice)
           /\ (op = "DescribeStream" => ret.desc.nil)

C3_Witness ==
    /\ IsFetch
    /\ reply.err = "ExpiredIterator"
    /\ ret.err = "ExpiredIterator"
    /\ args.shardIterator # ""

\* C4: a fetch whose answer carries zero records and a NextShardIterator
\* succeeds and returns that iterator unchanged, and a successful fetch
\* returns an empty next iterator exactly when the answer carries none.
C4_EmptyPageIsNotExhaustion ==
    (IsFetch /\ Answered)
        => /\ ret.err = NoError
           /\ (/\ Field(reply.json, "Records", <<>>) = <<>>
               /\ Field(reply.json, "NextShardIterator", "") # "")
                  => /\ ret.next = reply.json.NextShardIterator
                     /\ ret.records.elems = <<>>
           /\ (ret.next = ""
                 <=> Field(reply.json, "NextShardIterator", "") = "")

C4_Witness ==
    /\ IsFetch
    /\ Answered
    /\ Field(reply.json, "Records", <<>>) = <<>>
    /\ Field(reply.json, "NextShardIterator", "") # ""
    /\ ret.next # ""
    /\ ret.err = NoError

\* C7 as claimed: when the answer's description carries a
\* LastEvaluatedShardId, DescribeStream goes on until none remains and the
\* Shards it returns are the shards of all pages.
C7_DescribeStreamFollowsPagination ==
    (/\ op = "DescribeStream"
     /\ Answered
     /\ Field(reply.json.StreamDescription, "LastEvaluatedShardId", "") # "")
        => /\ ret.err = NoError
           /\ ret.desc.value.LastEvaluatedShardId = ""
           /\ ret.desc.value.Shards.elems
                 = [i \in 1..Len(server.shards) |->
                       ShardT(ShardJson(server.shards, i))]

\* C7 amended: DescribeStream sends one request and returns the description
\* the server answers with: its Shards are the shards of that one page, in
\* order, and its LastEvaluatedShardId is the answer's, left to the caller.
C7_DescribeStreamReturnsFirstPage ==
    (op = "DescribeStream" /\ Answered)
        => /\ ret.err = NoError
           /\ ~ret.desc.nil
           /\ request = [target |-> "DescribeStream",
                         StreamId |-> args.streamId]
           /\ ret.desc.value.Shards.elems
                 = [i \in 1..Len(ShardPages[1]) |-> ShardT(ShardPages[1][i])]
           /\ ret.desc.value.LastEvaluatedShardId
                 = Field(reply.json.StreamDescription,
                         "LastEvaluatedShardId", "")

C7_Witness ==
    /\ op = "DescribeStream"
    /\ Answered
    /\ Len(ShardPages) >= 2
    /\ ret.desc.value.LastEvaluatedShardId = ShardId(MaxPageSize)
    /\ Len(ret.desc.value.Shards.elems) = MaxPageSize

\* C8: a successful fetch returns the records of the answer, as many and in
\* the order the answer lists them.
C8_FetchKeepsOrder ==
    (IsFetch /\ Answered)
        => LET sent == Field(reply.json, "Records", <<>>)
               got == ret.records.elems
           IN /\ Len(got) = Len(sent)
              /\ \A i \in 1..Len(sent) :
                    /\ got[i].DynamoDB.SequenceNumber
                          = sent[i].dynamodb.SequenceNumber
                    /\ got[i].EventID = sent[i].eventID
                    /\ got[i].EventName = sent[i].eventName

C8_Witness ==
    /\ IsFetch
    /\ Answered
    /\ Len(ret.records.elems) >= 2
    /\ ret.records.elems[1].DynamoDB.SequenceNumber
          # ret.records.elems[2].DynamoDB.SequenceNumber

\* What an operation returns besides the error is its zero value.
NoResult ==
    CASE op = "DescribeStream" -> ret.desc.nil
      [] op = "ListStreams" -> ret.ids.nil
      [] IsOpen -> ret.it = ""
      [] IsFetch -> ret.next = "" /\ ret.records.nil

\* C9: an operation whose request fails or whose answer cannot be decoded
\* returns no result and a non-nil error, any other call returns a nil
\* error; so a fetch returns an empty next iterator with a nil error only
\* when the answer carried no successor iterator.
C9_ResultXorError ==
    ~Idle
        => /\ (~Answered => NoResult /\ ret.err # NoError)
           /\ (Answered => ret.err = NoError)
           /\ (IsFetch /\ ret.next = "" /\ ret.err = NoError
                 => /\ Answered
                    /\ Field(reply.json, "NextShardIterator", "") = "")

\* A failed fetch on a shard that has more to read: the empty next iterator
\* comes with an error.
C9_Witness ==
    /\ IsFetch
    /\ ~Answered
    /\ reply.err = NoError
    /\ ret.next = ""
    /\ ret.err = UnmarshalError
    /\ server.shardLen > 0
    /\ args.shardIterator = Iterator(0)

\* C10: GetShardIterator sends the request and returns the result of
\* GetShardIteratorWithSeqNumber with the sequence number "", for every
\* iterator type; GetRecords those of GetRecordsWithLimit with the limit 0.
C10_ShortFormsAreDefaults ==
    /\ op = "GetShardIterator"
         => LET long == GetShardIteratorWithSeqNumber(args.streamId,
                            args.shardId, args.shardIteratorType, "", server)
            IN /\ request = long.request
               /\ request.SequenceNumber = ""
               /\ reply = long.reply
               /\ ret = long.ret
    /\ op = "GetRecords"
         => LET long == GetRecordsWithLimit(args.shardIterator, 0, server)
            IN /\ request = long.request
               /\ request.Limit = 0
               /\ reply = long.reply
               /\ ret = long.ret

C10_Witness ==
    /\ op = "GetShardIterator"
    /\ args.shardIteratorType = ShardIteratorAtSequenceNumber
    /\ request.SequenceNumber = ""
    /\ ret.err = NoError
    /\ ret.it # ""

----------------------------------------------------------------------------
(* Properties of the reader *)

\* The number a sequence number is the decimal form of.
SequenceValue(seq) == CHOOSE i \in 0..MaxRecords : SequenceNumber(i) = seq

StrictlyAscending(records) ==
    \A i \in 1..Len(records) - 1 :
        SequenceValue(records[i].DynamoDB.SequenceNumber)
           < SequenceValue(records[i + 1].DynamoDB.SequenceNumber)

----------------------------------------------------------------------------
(* Properties of the shard tree *)

\* C6: a shard whose ParentShardId names a shard of the stream is never
\* reported eligible unless that parent was marked completed before, and a
\* shard without a parent is eligible as soon as it is inserted.
C6_ChildAfterParent ==
    /\ \A s \in tree :
          (/\ s.ShardId \in reported \cup eligibleShards(tree, completed)
           /\ \E t \in TopologyShards : t.ShardId = s.ParentShardId)
             => s.ParentShardId \in completed
    /\ \A s \in tree :
          (s.ParentShardId = "" /\ s.ShardId \notin completed)
             => s.ShardId \in eligibleShards(tree, completed)

C6_Witness ==
    \E s \in tree :
        /\ s.ParentShardId # ""
        /\ s.ParentShardId \in completed
        /\ s.ShardId \in reported
        /\ \E t \in tree : t.ParentShardId = s.ParentShardId /\ t # s

====
